---- MODULE Spec2Model ----
(***************************************************************************)
(* Model of src/bikeshare.py: loading a city's trip table, deriving the    *)
(* month / day_of_week / hour columns, the month and day filters of        *)
(* load_data_filtered, the aggregate statistics, and the interactive loop  *)
(* of main.                                                                *)
(*                                                                         *)
(* Text is a sequence of one-character strings, so that str.lower(),       *)
(* str.strip(), "+" and the ordering used by Series.mode() are computed.   *)
(* A float is a fraction [num, den]; 0/0 is NaN.                           *)
(***************************************************************************)
EXTENDS Integers, Sequences, FiniteSets, TLC

(* ------------------------------- bounds -------------------------------- *)
MaxRows == 3
MaxRuns == 1
MaxPages == 1

(* -------------------------------- text --------------------------------- *)
\* the characters in use, in code-point order
ASCII ==
  << " ",
     "A","B","C","D","E","F","G","H","I","J","K","L","M",
     "N","O","P","Q","R","S","T","U","V","W","X","Y","Z",
     "a","b","c","d","e","f","g","h","i","j","k","l","m",
     "n","o","p","q","r","s","t","u","v","w","x","y","z" >>

CodePoint == [c \in {ASCII[i] : i \in 1..Len(ASCII)} |-> CHOOSE i \in 1..Len(ASCII) : ASCII[i] = c]
Ord(c) == CodePoint[c]

\* str.lower() on one character, then on a string
LowerChar(c) == IF Ord(c) \in 2..27 THEN ASCII[Ord(c) + 26] ELSE c
Lower(s) == [i \in 1..Len(s) |-> LowerChar(s[i])]

\* str.strip(): drop leading and trailing whitespace
RECURSIVE LStrip(_)
LStrip(s) == IF s # <<>> /\ Head(s) = " " THEN LStrip(Tail(s)) ELSE s
RECURSIVE RStrip(_)
RStrip(s) == IF s # <<>> /\ s[Len(s)] = " " THEN RStrip(SubSeq(s, 1, Len(s) - 1)) ELSE s
Strip(s) == RStrip(LStrip(s))

\* Python's "<" on str: lexicographic by code point
RECURSIVE StrLess(_, _)
StrLess(a, b) ==
  IF b = <<>> THEN FALSE
  ELSE IF a = <<>> THEN TRUE
  ELSE IF Head(a) # Head(b) THEN Ord(Head(a)) < Ord(Head(b))
  ELSE StrLess(Tail(a), Tail(b))

\* list.index(x) + membership for a list of strings (0-based, -1 when absent)
IndexOf(list, x) ==
  IF \E i \in 1..Len(list) : list[i] = x
  THEN (CHOOSE i \in 1..Len(list) : list[i] = x /\ \A j \in 1..(i - 1) : list[j] # x) - 1
  ELSE -1

\* an optional str argument: None, or a str
None == [given |-> FALSE, text |-> <<>>]
Str(t) == [given |-> TRUE, text |-> t]
\* truth value of an optional str: None and "" are falsy
Truthy(a) == a.given /\ a.text # <<>>

ALL == <<"a","l","l">>
MONTHS ==
  << <<"j","a","n","u","a","r","y">>, <<"f","e","b","r","u","a","r","y">>,
     <<"m","a","r","c","h">>, <<"a","p","r","i","l">>, <<"m","a","y">>,
     <<"j","u","n","e">> >>
DAYS ==
  << <<"m","o","n","d","a","y">>, <<"t","u","e","s","d","a","y">>,
     <<"w","e","d","n","e","s","d","a","y">>, <<"t","h","u","r","s","d","a","y">>,
     <<"f","r","i","d","a","y">>, <<"s","a","t","u","r","d","a","y">>,
     <<"s","u","n","d","a","y">> >>

(* ------------------------------- floats -------------------------------- *)
NaN == [num |-> 0, den |-> 0]
Float(n) == [num |-> n, den |-> 1]
IsNaN(x) == x.den = 0
FloatLess(x, y) == x.num * y.den < y.num * x.den

RECURSIVE Gcd(_, _)
Gcd(a, b) == IF b = 0 THEN a ELSE Gcd(b, a % b)
\* a / b in float arithmetic (0 / 0 is NaN), as a fraction in lowest terms
Div(a, b) ==
  IF b = 0 THEN NaN
  ELSE LET g == Gcd(a, b) IN IF g = 0 THEN Float(0) ELSE [num |-> a \div g, den |-> b \div g]

(* ----------------------------- timestamps ------------------------------ *)
\* days of the months of 2017, the year of the trip data
MonthDays == <<31, 28, 31, 30, 31, 30, 31, 31, 30, 31, 30, 31>>
RECURSIVE DaysBefore(_)
DaysBefore(m) == IF m = 1 THEN 0 ELSE DaysBefore(m - 1) + MonthDays[m - 1]

\* pd.to_datetime on the text "2017-mm-dd HH:..": day number within 2017 and hour
ToDatetime(t) == [ordinal |-> DaysBefore(t.m) + t.d, hour |-> t.H]

\* .dt.month
DtMonth(ts) == CHOOSE m \in 1..12 : DaysBefore(m) < ts.ordinal /\ ts.ordinal <= DaysBefore(m) + MonthDays[m]
\* .dt.hour
DtHour(ts) == ts.hour
\* .dt.day_name(): 2017-01-01 was a Sunday
DAY_NAMES ==
  << <<"M","o","n","d","a","y">>, <<"T","u","e","s","d","a","y">>,
     <<"W","e","d","n","e","s","d","a","y">>, <<"T","h","u","r","s","d","a","y">>,
     <<"F","r","i","d","a","y">>, <<"S","a","t","u","r","d","a","y">>,
     <<"S","u","n","d","a","y">> >>
DtDayName(ts) == DAY_NAMES[((ts.ordinal + 5) % 7) + 1]

(* ------------------------------- tables -------------------------------- *)
\* A DataFrame: the row labels and, per column name, the column's cells.
Frame(idx, cols) == [index |-> idx, data |-> cols]
NRows(df) == Len(df.index)
Columns(df) == DOMAIN df.data

CHICAGO == <<"c","h","i","c","a","g","o">>
NEW_YORK_CITY == <<"n","e","w"," ","y","o","r","k"," ","c","i","t","y">>
WASHINGTON == <<"w","a","s","h","i","n","g","t","o","n">>
CITY_DATA == {CHICAGO, NEW_YORK_CITY, WASHINGTON}

BaseColumns == {"Start Time", "Trip Duration", "Start Station", "End Station", "User Type"}
\* washington.csv has no Gender and no Birth Year column
FileColumns(file) ==
  IF file = WASHINGTON THEN BaseColumns ELSE BaseColumns \cup {"Gender", "Birth Year"}

\* pd.read_csv: rows labelled 0..n-1, one column per column of the file
ReadCsv(file, rows) ==
  Frame([i \in 1..Len(rows) |-> i - 1],
        [c \in FileColumns(file) |-> [i \in 1..Len(rows) |-> rows[i][c]]])

\* df[name] = series
SetColumn(df, name, series) ==
  Frame(df.index, [c \in Columns(df) \cup {name} |-> IF c = name THEN series ELSE df.data[c]])

\* the positions of a boolean mask that are True, ascending
RECURSIVE TruePositions(_, _)
TruePositions(mask, i) ==
  IF i > Len(mask) THEN <<>>
  ELSE (IF mask[i] THEN <<i>> ELSE <<>>) \o TruePositions(mask, i + 1)

\* the same positions, descending
RECURSIVE TruePositionsDesc(_, _)
TruePositionsDesc(mask, i) ==
  IF i > Len(mask) THEN <<>>
  ELSE TruePositionsDesc(mask, i + 1) \o (IF mask[i] THEN <<i>> ELSE <<>>)

\* variant: the selected rows come out last-first
TakeReversed(df, mask) ==
  LET pos == TruePositionsDesc(mask, 1) IN
  Frame([k \in 1..Len(pos) |-> df.index[pos[k]]],
        [c \in Columns(df) |-> [k \in 1..Len(pos) |-> df.data[c][pos[k]]]])

\* df[mask]: a new frame of the rows whose mask cell is True, labels kept
Take(df, mask) ==
  LET pos == TruePositions(mask, 1) IN
  Frame([k \in 1..Len(pos) |-> df.index[pos[k]]],
        [c \in Columns(df) |-> [k \in 1..Len(pos) |-> df.data[c][pos[k]]]])

(* ------------------------------ results -------------------------------- *)
\* the outcome of a call: a returned value, or the exception raised
Return(v) == [raised |-> "", value |-> v]
Raise(e) == [raised |-> e]
NoCall == [raised |-> "-"]
Returned(r) == r.raised = ""

(* ------------------------------ load_data ------------------------------ *)
load_data(city, rows) ==
  IF Lower(city) \notin CITY_DATA THEN Raise("KeyError")
  ELSE
    LET df0 == ReadCsv(Lower(city), rows)
        n == NRows(df0)
        df1 == SetColumn(df0, "Start Time", [i \in 1..n |-> ToDatetime(df0.data["Start Time"][i])])
        df2 == SetColumn(df1, "month", [i \in 1..n |-> DtMonth(df1.data["Start Time"][i])])
        df3 == SetColumn(df2, "day_of_week", [i \in 1..n |-> DtDayName(df2.data["Start Time"][i])])
        df4 == SetColumn(df3, "hour", [i \in 1..n |-> DtHour(df3.data["Start Time"][i])])
    IN Return(df4)

(* -------------------------- load_data_filtered ------------------------- *)
\* variant: the sentinel is compared without lower-casing
IsRestrictionCaseSensitive(arg) == Truthy(arg) /\ arg.text # ALL

\* "month and month.lower() != 'all'"  /  "day and day.lower() != 'all'"
IsRestriction(arg) == Truthy(arg) /\ Lower(arg.text) # ALL

\* variant: months.index(m) without the + 1
MonthNumberZeroBased(m) == IndexOf(MONTHS, m)

\* month_number = months.index(m) + 1
MonthNumber(m) == IndexOf(MONTHS, m) + 1

\* x.strip().lower()
Normalize(text) == Lower(Strip(text))

\* lines 51-58: the month filter
MonthStep(df, month) ==
  IF ~IsRestriction(month) THEN Return(df)
  ELSE LET m == Normalize(month.text) IN
       IF IndexOf(MONTHS, m) = -1 THEN Raise("ValueError: Invalid month")
       ELSE Return(Take(df, [i \in 1..NRows(df) |-> df.data["month"][i] = MonthNumber(m)]))

\* lines 60-66: the day filter
DayStep(df, day) ==
  IF ~IsRestriction(day) THEN Return(df)
  ELSE LET d == Normalize(day.text) IN
       IF IndexOf(DAYS, d) = -1 THEN Raise("ValueError: Invalid day")
       ELSE Return(Take(df, [i \in 1..NRows(df) |-> Lower(df.data["day_of_week"][i]) = d]))

\* variant: the day is validated and applied before the month
ApplyFiltersDayFirst(df, month, day) ==
  LET a == DayStep(df, day) IN
  IF ~Returned(a) THEN a ELSE MonthStep(a.value, month)

\* lines 51-68 on a loaded table
ApplyFilters(df, month, day) ==
  LET a == MonthStep(df, month) IN
  IF ~Returned(a) THEN a ELSE DayStep(a.value, day)

load_data_filtered(city, month, day, rows) ==
  LET l == load_data(city, rows) IN
  IF ~Returned(l) THEN l ELSE ApplyFilters(l.value, month, day)

(* ------------------------------- series -------------------------------- *)
Cells(s) == {s[i] : i \in 1..Len(s)}
Count(s, v) == Cardinality({i \in 1..Len(s) : s[i] = v})
\* the position of the first occurrence of v
FirstPos(s, v) == CHOOSE i \in 1..Len(s) : s[i] = v /\ \A j \in 1..(i - 1) : s[j] # v

\* Series.dropna() on a float column
DropNaN(s) == SelectSeq(s, LAMBDA x : ~IsNaN(x))

\* the values of highest occurrence count
Modes(s) == {v \in Cells(s) : \A w \in Cells(s) : Count(s, w) <= Count(s, v)}

\* variant: among the most frequent values, the one met first
ModeIntFirstSeen(s) ==
  IF s = <<>> THEN Raise("KeyError")
  ELSE Return(CHOOSE v \in Modes(s) : \A w \in Modes(s) : FirstPos(s, v) <= FirstPos(s, w))

\* Series.mode()[0] on an integer column: the modes come sorted ascending
ModeInt(s) ==
  IF s = <<>> THEN Raise("KeyError")
  ELSE Return(CHOOSE v \in Modes(s) : \A w \in Modes(s) : v <= w)

\* Series.mode()[0] on a text column
ModeStr(s) ==
  IF s = <<>> THEN Raise("KeyError")
  ELSE Return(CHOOSE v \in Modes(s) : \A w \in Modes(s) : v = w \/ StrLess(v, w))

\* Series.mode()[0] on a float column: missing cells are not counted
ModeFloat(s) ==
  LET t == DropNaN(s) IN
  IF t = <<>> THEN Raise("KeyError")
  ELSE Return(CHOOSE v \in Modes(t) : \A w \in Modes(t) : v = w \/ FloatLess(v, w))

RECURSIVE Sum(_)
Sum(s) == IF s = <<>> THEN 0 ELSE Head(s) + Sum(Tail(s))

\* Series.min() / Series.max() on a float column: NaN when nothing is left
MinFloat(s) ==
  LET t == DropNaN(s) IN
  IF t = <<>> THEN NaN ELSE CHOOSE v \in Cells(t) : \A w \in Cells(t) : v = w \/ FloatLess(v, w)
MaxFloat(s) ==
  LET t == DropNaN(s) IN
  IF t = <<>> THEN NaN ELSE CHOOSE v \in Cells(t) : \A w \in Cells(t) : v = w \/ FloatLess(w, v)

\* int(x) of a float
IntOf(x) == IF IsNaN(x) THEN Raise("ValueError") ELSE Return(x.num \div x.den)

\* the distinct values in order of first occurrence
RECURSIVE Distinct(_)
Distinct(s) ==
  IF s = <<>> THEN <<>>
  ELSE <<Head(s)>> \o Distinct(SelectSeq(Tail(s), LAMBDA x : x # Head(s)))

\* Series.value_counts(): (value, count) by descending count, stable
RECURSIVE SortByCount(_, _)
SortByCount(vals, s) ==
  IF vals = <<>> THEN <<>>
  ELSE LET k == CHOOSE i \in 1..Len(vals) :
                  /\ \A j \in 1..Len(vals) : Count(s, vals[j]) <= Count(s, vals[i])
                  /\ \A j \in 1..(i - 1) : Count(s, vals[j]) < Count(s, vals[i])
       IN <<[value |-> vals[k], count |-> Count(s, vals[k])]>>
            \o SortByCount(SubSeq(vals, 1, k - 1) \o SubSeq(vals, k + 1, Len(vals)), s)
ValueCounts(s) == SortByCount(Distinct(s), s)

(* ----------------------------- statistics ------------------------------ *)
most_common_hour(df) == ModeInt(df.data["hour"])

user_types_count(df) == Return(ValueCounts(df.data["User Type"]))

gender_count(df) ==
  IF "Gender" \notin Columns(df) THEN Raise("KeyError")
  ELSE Return(ValueCounts(df.data["Gender"]))

birth_year_stats(df) ==
  IF "Birth Year" \notin Columns(df) THEN Raise("KeyError")
  ELSE LET col == df.data["Birth Year"]
           earliest == IntOf(MinFloat(col))
           recent == IntOf(MaxFloat(col))
           common == ModeFloat(col)
       IN IF ~Returned(earliest) THEN earliest
          ELSE IF ~Returned(recent) THEN recent
          ELSE IF ~Returned(common) THEN common
          ELSE Return([earliest |-> earliest.value, most_recent |-> recent.value,
                       most_common |-> IntOf(common.value).value])

most_common_month(df) == ModeInt(df.data["month"])

most_common_day(df) == ModeStr(df.data["day_of_week"])

total_travel_time(df) == Return(Sum(df.data["Trip Duration"]))

\* Series.mean() is sum / count, NaN on no rows; float() keeps NaN
average_travel_time(df) ==
  Return(Div(Sum(df.data["Trip Duration"]), Len(df.data["Trip Duration"])))

TO == <<" ","t","o"," ">>
\* df['Start Station'] + " to " + df['End Station']
TripColumn(df) ==
  [i \in 1..NRows(df) |-> df.data["Start Station"][i] \o TO \o df.data["End Station"][i]]

\* variant: the trip is the two separate modes joined
most_common_stations_joined(df) ==
  LET start == ModeStr(df.data["Start Station"])
      end == ModeStr(df.data["End Station"])
  IN IF ~Returned(start) THEN start
     ELSE IF ~Returned(end) THEN end
     ELSE Return([start |-> start.value, end |-> end.value,
                  trip |-> start.value \o TO \o end.value])

\* the value most_common_stations returns
most_common_stations(df) ==
  LET start == ModeStr(df.data["Start Station"])
      end == ModeStr(df.data["End Station"])
      trip == ModeStr(TripColumn(df))
  IN IF ~Returned(start) THEN start
     ELSE IF ~Returned(end) THEN end
     ELSE IF ~Returned(trip) THEN trip
     ELSE Return([start |-> start.value, end |-> end.value, trip |-> trip.value])

\* the table most_common_stations leaves behind: line 190 assigns df['Trip']
\* once both station modes were found
most_common_stations_df(df) ==
  IF Returned(ModeStr(df.data["Start Station"])) /\ Returned(ModeStr(df.data["End Station"]))
  THEN SetColumn(df, "Trip", TripColumn(df))
  ELSE df

(* ------------------------------ trip data ------------------------------ *)
AllColumns == BaseColumns \cup {"Gender", "Birth Year"}
Row(t, dur, ss, es, ut, g, by) ==
  [c \in AllColumns |->
     CASE c = "Start Time" -> t
       [] c = "Trip Duration" -> dur
       [] c = "Start Station" -> ss
       [] c = "End Station" -> es
       [] c = "User Type" -> ut
       [] c = "Gender" -> g
       [] c = "Birth Year" -> by]

Subscriber == <<"S","u","b","s","c","r","i","b","e","r">>
Customer == <<"C","u","s","t","o","m","e","r">>
Male == <<"M","a","l","e">>
Female == <<"F","e","m","a","l","e">>

\* the lines a city file is made of
RowPool ==
  { Row([m |-> 1, d |-> 2, H |-> 9], 60, <<"B">>, <<"A">>, Subscriber, Male, Float(1990)),
    Row([m |-> 1, d |-> 3, H |-> 8], 120, <<"A">>, <<"B">>, Customer, Female, Float(1980)),
    Row([m |-> 6, d |-> 5, H |-> 9], 180, <<"A">>, <<"A","b">>, Subscriber, Male, NaN),
    Row([m |-> 7, d |-> 4, H |-> 23], 61, <<"B">>, <<"B">>, Customer, Female, Float(1980)) }

RECURSIVE SeqsUpTo(_, _)
SeqsUpTo(S, n) ==
  IF n = 0 THEN {<<>>}
  ELSE LET shorter == SeqsUpTo(S, n - 1) IN
       shorter \cup {Append(q, x) : q \in {r \in shorter : Len(r) = n - 1}, x \in S}

\* the arguments a caller passes for month and for day
MonthArgs ==
  { None, Str(<<>>), Str(<<"a","l","l">>), Str(<<"A","L","L">>), Str(<<" ","a","l","l"," ">>),
    Str(<<" ","J","u","n","e"," ">>), Str(<<"J","A","N","U","A","R","Y">>),
    Str(<<"D","e","c","e","m","b","e","r">>) }
DayArgs ==
  { None, Str(<<>>), Str(<<"A","l","l">>), Str(<<"a","l","l"," ">>),
    Str(<<"M","o","n","d","a","y"," ">>), Str(<<"t","u","e","s","d","a","y">>),
    Str(<<"F","u","n","d","a","y">>) }
CityArgs ==
  { CHICAGO, <<"W","a","s","h","i","n","g","t","o","n">>, <<"P","a","r","i","s">> }

\* what the user types at the prompts of main
CityInputs ==
  { <<" ","C","h","i","c","a","g","o">>, NEW_YORK_CITY, <<"W","a","s","h","i","n","g","t","o","n"," ">>,
    <<"P","a","r","i","s">> }
MonthInputs ==
  { <<"a","l","l">>, <<"J","a","n","u","a","r","y"," ">>, <<"j","u","n","e">>,
    <<"D","e","c","e","m","b","e","r">> }
DayInputs ==
  { <<" ","A","L","L">>, <<"M","o","n","d","a","y">>, <<"t","u","e","s","d","a","y">>,
    <<"F","u","n","d","a","y">> }
YES == <<"y","e","s">>
YesNoInputs == { <<"Y","e","s"," ">>, <<"n","o">> }

(* -------------------------------- state -------------------------------- *)
VARIABLES
  source,   \* the lines of the city files
  pc,       \* where the caller / main stands
  city,     \* the city argument
  month,    \* the month argument
  day,      \* the day argument
  df,       \* the table the caller holds
  fn,       \* the function called last
  ret,      \* what that call returned or raised
  demo,     \* the cities main has called gender_count or birth_year_stats for
  start,    \* display_raw_data's offset
  runs      \* completed passes of main's outer loop

vars == <<source, pc, city, month, day, df, fn, ret, demo, start, runs>>

NoFrame == Frame(<<>>, [c \in {} |-> <<>>])

(* --------------------- direct calls of the functions ------------------- *)
Init ==
  /\ source \in SeqsUpTo(RowPool, MaxRows)
  /\ city \in CityArgs
  /\ pc = "call"
  /\ month = None
  /\ day = None
  /\ df = NoFrame
  /\ fn = "-"
  /\ ret = NoCall
  /\ demo = {}
  /\ start = 0
  /\ runs = 0

\* df = load_data_filtered(city, m, d)
CallLoadDataFiltered ==
  /\ pc = "call"
  /\ \E m \in MonthArgs, d \in DayArgs :
       LET r == load_data_filtered(city, m, d, source) IN
       /\ month' = m
       /\ day' = d
       /\ fn' = "load_data_filtered"
       /\ ret' = IF Returned(r) THEN Return("DataFrame") ELSE r
       /\ df' = IF Returned(r) THEN r.value ELSE df
       /\ pc' = IF Returned(r) THEN "view" ELSE "failed"
  /\ UNCHANGED <<source, city, demo, start, runs>>

\* df = load_data(city)
CallLoadData ==
  /\ pc = "call"
  /\ LET r == load_data(city, source) IN
       /\ fn' = "load_data"
       /\ ret' = IF Returned(r) THEN Return("DataFrame") ELSE r
       /\ df' = IF Returned(r) THEN r.value ELSE df
       /\ pc' = IF Returned(r) THEN "view" ELSE "failed"
  /\ UNCHANGED <<source, city, month, day, demo, start, runs>>

\* a statistic that only reads the table
Reads(name, r) ==
  /\ pc = "view"
  /\ fn' = name
  /\ ret' = r
  /\ UNCHANGED <<source, pc, city, month, day, df, demo, start, runs>>

CallMostCommonMonth == Reads("most_common_month", most_common_month(df))
CallMostCommonDay == Reads("most_common_day", most_common_day(df))
CallMostCommonHour == Reads("most_common_hour", most_common_hour(df))
CallTotalTravelTime == Reads("total_travel_time", total_travel_time(df))
CallAverageTravelTime == Reads("average_travel_time", average_travel_time(df))
CallUserTypesCount == Reads("user_types_count", user_types_count(df))
CallGenderCount == Reads("gender_count", gender_count(df))
CallBirthYearStats == Reads("birth_year_stats", birth_year_stats(df))

CallMostCommonStations ==
  /\ pc = "view"
  /\ fn' = "most_common_stations"
  /\ ret' = most_common_stations(df)
  /\ df' = most_common_stations_df(df)
  /\ UNCHANGED <<source, pc, city, month, day, demo, start, runs>>

Aggregate ==
  \/ CallMostCommonMonth
  \/ CallMostCommonDay
  \/ CallMostCommonHour
  \/ CallMostCommonStations
  \/ CallTotalTravelTime
  \/ CallAverageTravelTime
  \/ CallUserTypesCount
  \/ CallGenderCount
  \/ CallBirthYearStats

Next ==
  \/ CallLoadDataFiltered
  \/ CallLoadData
  \/ Aggregate

Spec == Init /\ [][Next]_vars

(* --------------------------------- main -------------------------------- *)
\* variant: the demographic statistics are computed for every city
SupportsDemographicsAlways(c) == c \in CITY_DATA

\* line 293: city in ['chicago', 'new york city']
SupportsDemographics(c) == c \in {CHICAGO, NEW_YORK_CITY}

MainInit ==
  /\ source \in SeqsUpTo(RowPool, MaxRows)
  /\ pc = "city"
  /\ city = <<>>
  /\ month = None
  /\ day = None
  /\ df = NoFrame
  /\ fn = "-"
  /\ ret = NoCall
  /\ demo = {}
  /\ start = 0
  /\ runs = 0

\* lines 222-229: ask until the city is one of the three
AskCity ==
  /\ pc = "city"
  /\ \E text \in CityInputs :
       /\ city' = Normalize(text)
       /\ pc' = IF Normalize(text) \in CITY_DATA THEN "month" ELSE "city"
  /\ UNCHANGED <<source, month, day, df, fn, ret, demo, start, runs>>

\* lines 232-240: ask until the month is 'all' or January..June
AskMonth ==
  /\ pc = "month"
  /\ \E text \in MonthInputs :
       /\ month' = Str(Normalize(text))
       /\ pc' = IF Normalize(text) = ALL \/ IndexOf(MONTHS, Normalize(text)) # -1
                THEN "day" ELSE "month"
  /\ UNCHANGED <<source, city, day, df, fn, ret, demo, start, runs>>

\* lines 243-251: ask until the day is 'all' or Monday..Sunday
AskDay ==
  /\ pc = "day"
  /\ \E text \in DayInputs :
       /\ day' = Str(Normalize(text))
       /\ pc' = IF Normalize(text) = ALL \/ IndexOf(DAYS, Normalize(text)) # -1
                THEN "load" ELSE "day"
  /\ UNCHANGED <<source, city, month, df, fn, ret, demo, start, runs>>

\* lines 254-273: the call main makes for the chosen filters
MainLoadCall ==
  IF month.text # ALL /\ day.text # ALL THEN load_data_filtered(city, month, day, source)
  ELSE IF month.text # ALL THEN load_data_filtered(city, month, None, source)
  ELSE IF day.text # ALL THEN load_data_filtered(city, None, day, source)
  ELSE load_data(city, source)

\* a ValueError sends main back to the city prompt, any other exception ends it
LoadAndFilter ==
  /\ pc = "load"
  /\ LET r == MainLoadCall IN
       /\ fn' = IF month.text # ALL \/ day.text # ALL THEN "load_data_filtered" ELSE "load_data"
       /\ ret' = IF Returned(r) THEN Return("DataFrame") ELSE r
       /\ df' = IF Returned(r) THEN r.value ELSE df
       /\ pc' = IF Returned(r) THEN "most_common_month"
                ELSE IF r.raised \in {"ValueError: Invalid month", "ValueError: Invalid day"}
                THEN "city" ELSE "crashed"
  /\ UNCHANGED <<source, city, month, day, demo, start, runs>>

\* one statistic of lines 277-300; an exception is not caught
Statistic(name, r, after) ==
  /\ pc = name
  /\ fn' = name
  /\ ret' = r
  /\ pc' = IF Returned(r) THEN after ELSE "crashed"

MainMostCommonMonth ==
  /\ Statistic("most_common_month", most_common_month(df), "most_common_day")
  /\ UNCHANGED <<source, city, month, day, df, demo, start, runs>>

MainMostCommonDay ==
  /\ Statistic("most_common_day", most_common_day(df), "most_common_hour")
  /\ UNCHANGED <<source, city, month, day, df, demo, start, runs>>

MainMostCommonHour ==
  /\ Statistic("most_common_hour", most_common_hour(df), "most_common_stations")
  /\ UNCHANGED <<source, city, month, day, df, demo, start, runs>>

MainMostCommonStations ==
  /\ Statistic("most_common_stations", most_common_stations(df), "total_travel_time")
  /\ df' = most_common_stations_df(df)
  /\ UNCHANGED <<source, city, month, day, demo, start, runs>>

MainTotalTravelTime ==
  /\ Statistic("total_travel_time", total_travel_time(df), "average_travel_time")
  /\ UNCHANGED <<source, city, month, day, df, demo, start, runs>>

MainAverageTravelTime ==
  /\ Statistic("average_travel_time", average_travel_time(df), "user_types_count")
  /\ UNCHANGED <<source, city, month, day, df, demo, start, runs>>

\* lines 289-293: the user types, then the test on the city
MainUserTypesCount ==
  /\ Statistic("user_types_count", user_types_count(df),
               IF SupportsDemographics(city) THEN "gender_count" ELSE "display_raw_data")
  /\ UNCHANGED <<source, city, month, day, df, demo, start, runs>>

MainGenderCount ==
  /\ Statistic("gender_count", gender_count(df), "birth_year_stats")
  /\ demo' = demo \cup {city}
  /\ UNCHANGED <<source, city, month, day, df, start, runs>>

MainBirthYearStats ==
  /\ Statistic("birth_year_stats", birth_year_stats(df), "display_raw_data")
  /\ demo' = demo \cup {city}
  /\ UNCHANGED <<source, city, month, day, df, start, runs>>

\* display_raw_data: five more lines for every 'yes'
DisplayRawData ==
  /\ pc = "display_raw_data"
  /\ \E text \in YesNoInputs :
       IF Normalize(text) # YES
       THEN /\ pc' = "restart"
            /\ start' = 0
       ELSE /\ start < 5 * MaxPages
            /\ start' = start + 5
            /\ pc' = pc
  /\ UNCHANGED <<source, city, month, day, df, fn, ret, demo, runs>>

\* lines 304-306; the locals of the finished pass are all assigned again
\* before they are read
Restart ==
  /\ pc = "restart"
  /\ \E text \in YesNoInputs :
       IF Normalize(text) # YES
       THEN /\ pc' = "done"
            /\ UNCHANGED <<city, month, day, df, fn, ret, runs>>
       ELSE /\ runs < MaxRuns
            /\ runs' = runs + 1
            /\ pc' = "city"
            /\ city' = <<>>
            /\ month' = None
            /\ day' = None
            /\ df' = NoFrame
            /\ fn' = "-"
            /\ ret' = NoCall
  /\ UNCHANGED <<source, demo, start>>

MainNext ==
  \/ AskCity
  \/ AskMonth
  \/ AskDay
  \/ LoadAndFilter
  \/ MainMostCommonMonth
  \/ MainMostCommonDay
  \/ MainMostCommonHour
  \/ MainMostCommonStations
  \/ MainTotalTravelTime
  \/ MainAverageTravelTime
  \/ MainUserTypesCount
  \/ MainGenderCount
  \/ MainBirthYearStats
  \/ DisplayRawData
  \/ Restart

MainSpec == MainInit /\ [][MainNext]_vars

(* ============================== properties ============================= *)
\* the table load_data builds for the city, before any filter
Origin == load_data(city, source).value
KnownCity == Lower(city) \in CITY_DATA
JustFiltered == fn = "load_data_filtered" /\ KnownCity

\* an argument that names one of the listed values once trimmed and lower-cased
Names(arg, list) == arg.given /\ \E k \in 1..Len(list) : list[k] = Lower(Strip(arg.text))
\* an argument that is left out, or is 'all' in some letter case
Unrestricted(arg) == ~arg.given \/ Lower(arg.text) = ALL
\* an argument that is given and is neither 'all' nor, trimmed and lower-cased, in the list
Foreign(arg, list) == arg.given /\ Lower(arg.text) # ALL /\ ~Names(arg, list)

\* C1: a month value that is given, is not the sentinel 'all' and is not one of
\* January..June after trimming and lower-casing makes load_data_filtered fail
\* with the invalid-filter error and return no view; the same for a day value
\* outside Monday..Sunday.
C1_ForeignValueRejected ==
  JustFiltered =>
    /\ Foreign(month, MONTHS) => pc = "failed" /\ ret.raised = "ValueError: Invalid month"
    /\ Foreign(day, DAYS) =>
         pc = "failed" /\ ret.raised \in {"ValueError: Invalid month", "ValueError: Invalid day"}

\* C2: filtering with month 'all' (any letter case) gives the outcome of filtering
\* with the month left out, for every table and every day argument; the same for
\* day 'all' against day left out; and with both 'all' it is the table load_data
\* returns.
C2_AllEqualsOmitted ==
  /\ (JustFiltered /\ month.given /\ Lower(month.text) = ALL) =>
       LET r == load_data_filtered(city, None, day, source) IN
       IF Returned(r) THEN pc = "view" /\ df = r.value ELSE pc = "failed" /\ ret = r
  /\ (JustFiltered /\ day.given /\ Lower(day.text) = ALL) =>
       LET r == load_data_filtered(city, month, None, source) IN
       IF Returned(r) THEN pc = "view" /\ df = r.value ELSE pc = "failed" /\ ret = r
  /\ (JustFiltered /\ month.given /\ Lower(month.text) = ALL /\ day.given /\ Lower(day.text) = ALL) =>
       pc = "view" /\ df = Origin

C2_Witness ==
  /\ JustFiltered
  /\ pc = "view"
  /\ month = Str(<<"A","L","L">>)
  /\ Names(day, DAYS)
  /\ NRows(df) > 0
  /\ NRows(df) < NRows(Origin)

\* the row of Origin at position i passes the month / the day argument
PassesMonth(i) ==
  Unrestricted(month) \/ \E k \in 1..6 : MONTHS[k] = Lower(Strip(month.text)) /\ Origin.data["month"][i] = k
PassesDay(i) ==
  Unrestricted(day) \/ Lower(Origin.data["day_of_week"][i]) = Lower(Strip(day.text))
InClaimedDomain ==
  /\ Unrestricted(month) \/ Names(month, MONTHS)
  /\ Unrestricted(day) \/ Names(day, DAYS)

\* C3: for valid month and day names (or a dimension left unrestricted) the view
\* is exactly the rows of the table, in source order, none dropped, repeated or
\* reordered, whose month number is the 1-based position of the name in
\* January..June and whose day name equals the day ignoring case.
C3_ViewIsMatchingSubsequence ==
  (JustFiltered /\ InClaimedDomain) =>
    /\ pc = "view"
    /\ Columns(df) = Columns(Origin)
    /\ \A k, l \in 1..NRows(df) : k < l => df.index[k] < df.index[l]
    /\ Cells(df.index) = {Origin.index[i] : i \in {j \in 1..NRows(Origin) : PassesMonth(j) /\ PassesDay(j)}}
    /\ \A k \in 1..NRows(df) : \A c \in Columns(Origin) :
         df.data[c][k] = Origin.data[c][df.index[k] + 1]

C3_Witness ==
  /\ JustFiltered
  /\ pc = "view"
  /\ Names(month, MONTHS)
  /\ Names(day, DAYS)
  /\ NRows(Origin) = 3
  /\ NRows(df) = 2

\* C4: filtering the view again with the same month and day gives the same view,
\* and every row of the view is a row of the table it came from.
C4_FilterIdempotent ==
  (JustFiltered /\ pc = "view") =>
    /\ LET again == ApplyFilters(df, month, day) IN Returned(again) /\ again.value = df
    /\ \A k \in 1..NRows(df) : \E i \in 1..NRows(Origin) :
         /\ Origin.index[i] = df.index[k]
         /\ \A c \in Columns(Origin) : df.data[c][k] = Origin.data[c][i]

C4_Witness ==
  /\ JustFiltered
  /\ pc = "view"
  /\ Names(month, MONTHS)
  /\ NRows(df) = 2
  /\ NRows(Origin) = 3
  /\ df.data["hour"][1] # df.data["hour"][2]

\* the values of s that no value outnumbers
MostFrequent(s) == {v \in Cells(s) : ~\E w \in Cells(s) : Count(s, w) > Count(s, v)}
\* the one of them met first in source order
FirstSeen(s) == CHOOSE v \in MostFrequent(s) : \A w \in MostFrequent(s) : FirstPos(s, v) <= FirstPos(s, w)
Present(s) == SelectSeq(s, LAMBDA x : x.den # 0)
Whole(n) == [num |-> n, den |-> 1]

C6_EmptyMeanRaises ==
  (pc = "view" /\ fn = "average_travel_time") =>
    IF NRows(df) = 0 THEN ~Returned(ret)
    ELSE Returned(ret) /\ ret.value.den # 0
         /\ ret.value.num * NRows(df) = Sum(df.data["Trip Duration"]) * ret.value.den

\* C7: no statistic changes the view it is given: the rows, the set of columns
\* and every cell are the same after the call as before.
C7_StatisticsLeaveViewAlone == [][Aggregate => df' = df]_vars

\* C8: the trip returned by most_common_stations is a most frequent one of the
\* per-row strings start + " to " + end (the smallest of them on a tie), found
\* without regard to the two station modes.
C8_TripIsModeOfPairs ==
  (pc = "view" /\ fn = "most_common_stations" /\ NRows(df) > 0) =>
    LET n == NRows(df)
        pair(i) == df.data["Start Station"][i] \o <<" ","t","o"," ">> \o df.data["End Station"][i]
        uses(t) == Cardinality({i \in 1..n : pair(i) = t})
    IN /\ Returned(ret)
       /\ \E i \in 1..n : pair(i) = ret.value.trip
       /\ \A i \in 1..n : uses(pair(i)) <= uses(ret.value.trip)
       /\ \A i \in 1..n : uses(pair(i)) = uses(ret.value.trip) => ~StrLess(pair(i), ret.value.trip)

C8_Witness ==
  /\ pc = "view"
  /\ fn = "most_common_stations"
  /\ Returned(ret)
  /\ ret.value.trip # ret.value.start \o TO \o ret.value.end

\* C9: main calls gender_count and birth_year_stats only for Chicago and New
\* York City, never for Washington, in every pass of its loop and for every
\* choice of filters.
C9_DemographicsOnlyWhereSupported ==
  /\ demo \subseteq {CHICAGO, NEW_YORK_CITY}
  /\ pc \in {"gender_count", "birth_year_stats"} => city \in {CHICAGO, NEW_YORK_CITY}
  /\ (fn \in {"gender_count", "birth_year_stats"} /\ pc # "crashed") => "Gender" \in Columns(df)

C9_Witness ==
  /\ runs = 1
  /\ demo = {CHICAGO}
  /\ city = WASHINGTON
  /\ fn = "user_types_count"
  /\ pc = "display_raw_data"
  /\ Names(month, MONTHS)

\* C10: load_data_filtered compares with 'all' before trimming, so a value that
\* is 'all' only once trimmed raises the invalid-filter error, while a listed
\* name is accepted with surrounding whitespace; and the month is validated
\* before the day, so with both invalid the month error is raised.
C10_SentinelBeforeTrimMonthFirst ==
  LET padded(arg) == arg.given /\ Lower(arg.text) # ALL /\ Lower(Strip(arg.text)) = ALL
      passes(arg, list) == ~Truthy(arg) \/ Lower(arg.text) = ALL \/ Names(arg, list)
  IN JustFiltered =>
       /\ padded(month) => pc = "failed" /\ ret.raised = "ValueError: Invalid month"
       /\ (padded(day) /\ passes(month, MONTHS)) => pc = "failed" /\ ret.raised = "ValueError: Invalid day"
       /\ (Names(month, MONTHS) /\ passes(day, DAYS)) => pc = "view"
       /\ (Names(day, DAYS) /\ passes(month, MONTHS)) => pc = "view"
       /\ (~passes(month, MONTHS) /\ ~passes(day, DAYS)) =>
            pc = "failed" /\ ret.raised = "ValueError: Invalid month"

C10_Witness ==
  /\ JustFiltered
  /\ month = Str(<<" ","a","l","l"," ">>)
  /\ day = Str(<<"F","u","n","d","a","y">>)
  /\ ret.raised = "ValueError: Invalid month"
====
